---- MODULE Spec2Model ----
(***************************************************************************)
(* A model of the SendWithUs client of src/swu.go: the public operations,  *)
(* the request primitive makeRequest, the JSON encoding of request bodies, *)
(* the query encoding of SWULogQuery and the decoding of response bodies.  *)
(*                                                                         *)
(* Go values are modelled as follows: a string is a string, an int an      *)
(* integer, a bool a boolean, a struct a record keyed by its Go field      *)
(* names, a pointer either Nil or its pointee, a slice either Nil or       *)
(* [elems |-> <<...>>], a map either Nil or [entries |-> <<...>>].         *)
(* A JSON document is a tree ([k |-> "null"], [k |-> "string", s |-> ..],  *)
(* ...); Render gives its text and Scan reads a text back.                 *)
(***************************************************************************)
EXTENDS Integers, Sequences, FiniteSets, TLC

\* ------------------------------------------------------------------------
\* Bounds of the model.

\* The number of invocations of public operations in one behaviour.
MaxCalls == 2

\* ------------------------------------------------------------------------
\* Program constants.

swuEndpoint == "https://api.sendwithus.com/api/v1"

apiHeaderClient == "golang-0.0.1"

\* The status from which makeRequest treats a response as a failure.
FailureStatus == 300

\* The nil pointer, slice, map, interface or error.
Nil == [t |-> "nil"]

\* ------------------------------------------------------------------------
\* Go types, as descriptors: the fields of a struct are listed in declaration
\* order with their json tag, url tag and the omitempty option.

TString == [kind |-> "string"]

TInt == [kind |-> "int", name |-> "int"]

TInt64 == [kind |-> "int", name |-> "int64"]

TBool == [kind |-> "bool"]

TSlice(E) == [kind |-> "slice", elem |-> E]

TPtr(E) == [kind |-> "ptr", elem |-> E]

TMap(E) == [kind |-> "map", elem |-> E]

TStruct(name, fields) == [kind |-> "struct", name |-> name, fields |-> fields]

\* A field tagged `json:"<tag>,omitempty"`.
FOpt(go, tag, type) == [go |-> go, tag |-> tag, omitempty |-> TRUE, type |-> type]

\* A field tagged `json:"<tag>"`.
FReq(go, tag, type) == [go |-> go, tag |-> tag, omitempty |-> FALSE, type |-> type]

SWUVersion ==
    TStruct("sendwithus.SWUVersion",
            << FOpt("Name", "name", TString),
               FOpt("ID", "id", TString),
               FOpt("Created", "created", TInt64),
               FOpt("HTML", "html", TString),
               FOpt("Text", "text", TString),
               FOpt("Subject", "subject", TString),
               FOpt("Published", "published", TBool) >>)

SWUTemplate ==
    TStruct("sendwithus.SWUTemplate",
            << FOpt("ID", "id", TString),
               FOpt("Tags", "tags", TSlice(TString)),
               FOpt("Created", "created", TInt64),
               FOpt("Versions", "versions", TSlice(TPtr(SWUVersion))),
               FOpt("Name", "name", TString) >>)

SWURecipient ==
    TStruct("sendwithus.SWURecipient",
            << FOpt("Address", "address", TString),
               FOpt("Name", "name", TString) >>)

\* SWUSender embeds SWURecipient: encoding/json promotes the embedded fields.
SWUSender ==
    TStruct("sendwithus.SWUSender",
            SWURecipient.fields \o << FOpt("ReplyTo", "reply_to", TString) >>)

SWUAttachment ==
    TStruct("sendwithus.SWUAttachment",
            << FOpt("ID", "id", TString),
               FOpt("Data", "data", TString) >>)

SWUEmail ==
    TStruct("sendwithus.SWUEmail",
            << FOpt("ID", "email_id", TString),
               FOpt("Recipient", "recipient", TPtr(SWURecipient)),
               FOpt("CC", "cc", TSlice(TPtr(SWURecipient))),
               FOpt("BCC", "bcc", TSlice(TPtr(SWURecipient))),
               FOpt("Sender", "sender", TPtr(SWUSender)),
               FOpt("EmailData", "email_data", TMap(TString)),
               FOpt("Headers", "headers", TMap(TString)),
               FOpt("Tags", "tags", TSlice(TString)),
               FOpt("Inline", "inline", TPtr(SWUAttachment)),
               FOpt("Files", "files", TSlice(TPtr(SWUAttachment))),
               FOpt("ESPAccount", "esp_account", TString),
               FOpt("VersionName", "version_name", TString) >>)

SWUDripCampaign ==
    TStruct("sendwithus.SWUDripCampaign",
            << FOpt("Recipient", "recipient", TPtr(SWURecipient)),
               FOpt("CC", "cc", TSlice(TPtr(SWURecipient))),
               FOpt("BCC", "bcc", TSlice(TPtr(SWURecipient))),
               FOpt("Sender", "sender", TPtr(SWUSender)),
               FOpt("EmailData", "email_data", TMap(TString)),
               FOpt("Headers", "headers", TMap(TString)),
               FOpt("Tags", "tags", TSlice(TString)),
               FOpt("ESPAccount", "esp_account", TString),
               FOpt("Locale", "locale", TString) >>)

SWULogEvent ==
    TStruct("sendwithus.SWULogEvent",
            << FOpt("Object", "object", TString),
               FOpt("Created", "created", TInt64),
               FOpt("Type", "type", TString),
               FOpt("Message", "message", TString) >>)

\* SWULog embeds SWULogEvent: encoding/json promotes the embedded fields.
SWULog ==
    TStruct("sendwithus.SWULog",
            SWULogEvent.fields \o
            << FOpt("ID", "id", TString),
               FOpt("RecipientName", "recipient_name", TString),
               FOpt("RecipientAddress", "recipient_address", TString),
               FOpt("Status", "status", TString),
               FOpt("EmailID", "email_id", TString),
               FOpt("EmailName", "email_name", TString),
               FOpt("EmailVersion", "email_version", TString),
               FOpt("EventsURL", "events_url", TString) >>)

\* The anonymous struct of SWULogResend.Email: its fields have no omitempty.
SWULogResendEmail ==
    TStruct("struct { Name string; VersionName string }",
            << FReq("Name", "name", TString),
               FReq("VersionName", "version_name", TString) >>)

\* The Email field is tagged `json:"email"`, without omitempty.
SWULogResend ==
    TStruct("sendwithus.SWULogResend",
            << FOpt("Success", "success", TBool),
               FOpt("Status", "status", TString),
               FOpt("ID", "log_id", TString),
               FReq("Email", "email", SWULogResendEmail) >>)

\* SWULogQuery: every field is tagged `url:"<tag>,omitempty"`.
SWULogQuery ==
    TStruct("sendwithus.SWULogQuery",
            << FOpt("Count", "count", TInt),
               FOpt("Offset", "offset", TInt),
               FOpt("CreatedGT", "created_gt", TInt64),
               FOpt("CreatedGTE", "created_gte", TInt64),
               FOpt("CreatedLT", "created_lt", TInt64),
               FOpt("CreatedLTE", "created_lte", TInt64) >>)

\* ------------------------------------------------------------------------
\* Go values.

RECURSIVE Zero(_)
\* The zero value of a type.
Zero(T) ==
    CASE T.kind = "string" -> ""
      [] T.kind = "int" -> 0
      [] T.kind = "bool" -> FALSE
      [] T.kind = "struct" ->
            [g \in {T.fields[i].go : i \in DOMAIN T.fields} |->
                LET i == CHOOSE i \in DOMAIN T.fields : T.fields[i].go = g
                IN  Zero(T.fields[i].type)]
      [] OTHER -> Nil

\* encoding/json's isEmptyValue: what omitempty leaves out. A struct is never
\* empty.
isEmptyValue(T, v) ==
    CASE T.kind = "string" -> v = ""
      [] T.kind = "int" -> v = 0
      [] T.kind = "bool" -> v = FALSE
      [] T.kind = "struct" -> FALSE
      [] T.kind = "ptr" -> v = Nil
      [] T.kind = "slice" -> v = Nil \/ v.elems = <<>>
      [] T.kind = "map" -> v = Nil \/ v.entries = <<>>

\* ------------------------------------------------------------------------
\* JSON documents.

JNull == [k |-> "null"]

JString(s) == [k |-> "string", s |-> s]

JNumber(n) == [k |-> "number", n |-> n]

JBool(x) == [k |-> "bool", x |-> x]

JArray(elems) == [k |-> "array", elems |-> elems]

JObject(members) == [k |-> "object", members |-> members]

Member(key, val) == [key |-> key, val |-> val]

\* The text of a JSON string. The strings of the model hold no character that
\* JSON escapes.
Quote(s) == "\"" \o s \o "\""

RECURSIVE Render(_)
RECURSIVE RenderElems(_)
RECURSIVE RenderMembers(_)
\* The text of a JSON document, as json.Marshal writes it (no white space).
Render(j) ==
    CASE j.k = "null" -> "null"
      [] j.k = "string" -> Quote(j.s)
      [] j.k = "number" -> ToString(j.n)
      [] j.k = "bool" -> IF j.x THEN "true" ELSE "false"
      [] j.k = "array" -> "[" \o RenderElems(j.elems) \o "]"
      [] j.k = "object" -> "{" \o RenderMembers(j.members) \o "}"

RenderElems(s) ==
    IF s = <<>> THEN ""
    ELSE Render(Head(s)) \o (IF Tail(s) = <<>> THEN "" ELSE "," \o RenderElems(Tail(s)))

RenderMembers(s) ==
    IF s = <<>> THEN ""
    ELSE Quote(Head(s).key) \o ":" \o Render(Head(s).val)
         \o (IF Tail(s) = <<>> THEN "" ELSE "," \o RenderMembers(Tail(s)))

RECURSIVE Encode(_, _)
RECURSIVE EncodeFields(_, _)
RECURSIVE EncodeElems(_, _)
RECURSIVE EncodeEntries(_, _)
\* json.Marshal's document for the value v of type T.
Encode(T, v) ==
    CASE T.kind = "string" -> JString(v)
      [] T.kind = "int" -> JNumber(v)
      [] T.kind = "bool" -> JBool(v)
      [] T.kind = "ptr" -> IF v = Nil THEN JNull ELSE Encode(T.elem, v)
      [] T.kind = "slice" ->
            IF v = Nil THEN JNull ELSE JArray(EncodeElems(T.elem, v.elems))
      [] T.kind = "map" ->
            IF v = Nil THEN JNull ELSE JObject(EncodeEntries(T.elem, v.entries))
      [] T.kind = "struct" -> JObject(EncodeFields(T.fields, v))

\* The members of a struct: its fields in declaration order, an omitempty
\* field left out when its value is empty.
EncodeFields(fields, v) ==
    IF fields = <<>> THEN <<>>
    ELSE LET f == Head(fields)
         IN  (IF f.omitempty /\ isEmptyValue(f.type, v[f.go])
              THEN <<>>
              ELSE << Member(f.tag, Encode(f.type, v[f.go])) >>)
             \o EncodeFields(Tail(fields), v)

EncodeElems(E, s) ==
    IF s = <<>> THEN <<>> ELSE << Encode(E, Head(s)) >> \o EncodeElems(E, Tail(s))

EncodeEntries(E, s) ==
    IF s = <<>> THEN <<>>
    ELSE << Member(Head(s).key, Encode(E, Head(s).val)) >> \o EncodeEntries(E, Tail(s))

\* json.Marshal(v): for the types of this package it never fails.
Marshal(T, v) == Render(Encode(T, v))


\* ------------------------------------------------------------------------
\* Decoding a response body (json.Unmarshal).

\* The JSON documents a response body of the model may hold.
ResponseDocs ==
    { JNull,
      JArray(<<>>),
      JObject(<< Member("success", JBool(TRUE)), Member("status", JString("queued")) >>),
      JObject(<< Member("id", JString("t1")), Member("created", JString("x")) >>),
      JArray(<< JObject(<< Member("id", JString("t1")) >>) >>) }

\* The response bodies that are no JSON document, with the decoder's error.
SyntaxErrors ==
    [text \in {"", "not json"} |->
        IF text = "" THEN "unexpected end of JSON input"
        ELSE "invalid character 'o' in literal null (expecting 'u')"]

\* The response bodies of the model.
Bodies == {Render(d) : d \in ResponseDocs} \cup DOMAIN SyntaxErrors

\* The decoder's scan of a text: the document that the text writes, or a
\* syntax error.
Scan(text) ==
    IF \E d \in ResponseDocs : Render(d) = text
    THEN [ok |-> TRUE, doc |-> CHOOSE d \in ResponseDocs : Render(d) = text]
    ELSE [ok |-> FALSE, err |-> SyntaxErrors[text]]

RECURSIVE TypeName(_)
\* The name of a type, as reflect prints it.
TypeName(T) ==
    CASE T.kind = "string" -> "string"
      [] T.kind = "int" -> T.name
      [] T.kind = "bool" -> "bool"
      [] T.kind = "struct" -> T.name
      [] T.kind = "ptr" -> "*" \o TypeName(T.elem)
      [] T.kind = "slice" -> "[]" \o TypeName(T.elem)
      [] T.kind = "map" -> "map[string]" \o TypeName(T.elem)

\* The text of a json.UnmarshalTypeError.
TypeError(j, T, where) ==
    "json: cannot unmarshal " \o j.k \o " into " \o where \o " of type " \o TypeName(T)

\* The index of the field of `fields` tagged `key`, or 0.
FieldOf(fields, key) ==
    IF \E i \in DOMAIN fields : fields[i].tag = key
    THEN CHOOSE i \in DOMAIN fields : fields[i].tag = key
    ELSE 0

RECURSIVE DecodeValue(_, _, _, _)
RECURSIVE DecodeMembers(_, _, _)
RECURSIVE DecodeElems(_, _, _)
\* The decoder's store of the document j into a value of type T that now holds
\* cur: the value afterwards and the first error ("" when none). A null sets a
\* pointer or a slice to nil and leaves anything else alone; a nil pointer is
\* allocated before a value is stored through it; a document of the wrong
\* shape is an error that leaves the value alone, and the decoding goes on.
\* The sinks of this package hold no map.
DecodeValue(T, j, cur, where) ==
    IF j.k = "null"
    THEN [val |-> IF T.kind \in {"ptr", "slice", "map"} THEN Nil ELSE cur, err |-> ""]
    ELSE IF T.kind = "ptr"
    THEN DecodeValue(T.elem, j, IF cur = Nil THEN Zero(T.elem) ELSE cur, where)
    ELSE CASE j.k = "string" /\ T.kind = "string" -> [val |-> j.s, err |-> ""]
           [] j.k = "number" /\ T.kind = "int" -> [val |-> j.n, err |-> ""]
           [] j.k = "bool" /\ T.kind = "bool" -> [val |-> j.x, err |-> ""]
           [] j.k = "array" /\ T.kind = "slice" ->
                 LET r == DecodeElems(T.elem, j.elems, where)
                 IN  [val |-> [elems |-> r.val], err |-> r.err]
           [] j.k = "object" /\ T.kind = "struct" -> DecodeMembers(T, j.members, cur)
           [] OTHER -> [val |-> cur, err |-> TypeError(j, T, where)]

\* The members of an object, in order, into the fields they name; a key that
\* names no field is skipped.
DecodeMembers(T, members, cur) ==
    IF members = <<>> THEN [val |-> cur, err |-> ""]
    ELSE LET m == Head(members)
             i == FieldOf(T.fields, m.key)
         IN  IF i = 0 THEN DecodeMembers(T, Tail(members), cur)
             ELSE LET f == T.fields[i]
                      r == DecodeValue(f.type, m.val, cur[f.go],
                                       "Go struct field " \o T.name \o "." \o f.tag)
                      rest == DecodeMembers(T, Tail(members), [cur EXCEPT ![f.go] = r.val])
                  IN  [val |-> rest.val,
                       err |-> IF r.err # "" THEN r.err ELSE rest.err]

\* The elements of an array, each into a new element of the slice.
DecodeElems(E, elems, where) ==
    IF elems = <<>> THEN [val |-> <<>>, err |-> ""]
    ELSE LET r == DecodeValue(E, Head(elems), Zero(E), where)
             rest == DecodeElems(E, Tail(elems), where)
         IN  [val |-> << r.val >> \o rest.val,
              err |-> IF r.err # "" THEN r.err ELSE rest.err]

\* json.Unmarshal(b, sink), the sink a pointer to a value of type T that holds
\* cur: the value afterwards and the error. A text that is no JSON document
\* fails before anything is stored.
Unmarshal(text, T, cur) ==
    LET s == Scan(text)
    IN  IF ~s.ok
        THEN [val |-> cur, err |-> [kind |-> "json.SyntaxError", Message |-> s.err, wrapped |-> FALSE]]
        ELSE LET r == DecodeValue(T, s.doc, cur, "Go value")
             IN  [val |-> r.val,
                  err |-> IF r.err = "" THEN Nil
                          ELSE [kind |-> "json.UnmarshalTypeError", Message |-> r.err,
                                wrapped |-> FALSE]]

\* ------------------------------------------------------------------------
\* The query string of GetLogs (query.Values, then url.Values.Encode).

RECURSIVE ValuesOfFieldsKeepZero(_, _)
\* A variant of ValuesOfFields that ignores omitempty.
ValuesOfFieldsKeepZero(fields, v) ==
    IF fields = <<>> THEN <<>>
    ELSE << [key |-> Head(fields).tag, val |-> ToString(v[Head(fields).go])] >>
         \o ValuesOfFieldsKeepZero(Tail(fields), v)

RECURSIVE ValuesOfFields(_, _)
\* query.Values over the fields of a struct: one key and value for each field,
\* a field tagged omitempty left out when its value is zero.
ValuesOfFields(fields, v) ==
    IF fields = <<>> THEN <<>>
    ELSE LET f == Head(fields)
         IN  (IF f.omitempty /\ isEmptyValue(f.type, v[f.go])
              THEN <<>>
              ELSE << [key |-> f.tag, val |-> ToString(v[f.go])] >>)
             \o ValuesOfFields(Tail(fields), v)

\* query.Values(q): a nil pointer gives no values.
Values(q) == IF q = Nil THEN <<>> ELSE ValuesOfFields(SWULogQuery.fields, q)

\* The url tags of SWULogQuery in the byte order in which url.Values.Encode
\* sorts its keys.
SortedKeys ==
    << "count", "created_gt", "created_gte", "created_lt", "created_lte", "offset" >>

RECURSIVE JoinPairs(_)
JoinPairs(s) ==
    IF s = <<>> THEN ""
    ELSE Head(s).key \o "=" \o Head(s).val
         \o (IF Tail(s) = <<>> THEN "" ELSE "&" \o JoinPairs(Tail(s)))

RECURSIVE SortByKey(_, _)
\* The pairs of vs in the order of the keys of `keys`.
SortByKey(vs, keys) ==
    IF keys = <<>> THEN <<>>
    ELSE SelectSeq(vs, LAMBDA p : p.key = Head(keys)) \o SortByKey(vs, Tail(keys))

\* url.Values.Encode: key=value pairs joined by &, sorted by key. The values
\* of the model are decimal numbers, which the encoding leaves as they are.
ValuesEncode(vs) == JoinPairs(SortByKey(vs, SortedKeys))

\* ------------------------------------------------------------------------
\* Errors.

\* A variant of newSWUError that drops the message.
newSWUErrorNoMessage(res, message) ==
    [kind |-> "SWUError",
     Code |-> IF res # Nil THEN res.StatusCode ELSE 0,
     Message |-> "",
     wrapped |-> FALSE]

\* newSWUError: the status of the response when there is one, else 0.
newSWUError(res, message) ==
    [kind |-> "SWUError",
     Code |-> IF res # Nil THEN res.StatusCode ELSE 0,
     Message |-> message,
     wrapped |-> FALSE]

\* errors.Wrap of github.com/superhuman/backend/lib/errors: the error with a
\* stack trace attached; the error wrapped stays what it was.
Wrap(e) == [e EXCEPT !.wrapped = TRUE]

\* ------------------------------------------------------------------------
\* The inputs of the model.

\* The API keys given to New.
ApiKeys == {"", "key1"}

\* Identifiers put in a path: the last is no valid URL escape, so that the URL
\* of a request built from it does not parse.
Ids == {"log123", "%zz"}

\* Identifiers given to ResendLog, which puts them in the body.
LogIds == {"", "log123"}

\* The path components url.Parse rejects.
InvalidEscapes == {"%zz"}

\* The versions given to the template operations (a nil pointer included).
Versions ==
    { Nil, [Zero(SWUVersion) EXCEPT !.Name = "v1", !.Subject = "hello"] }

\* The emails given to Send: none, one with only its recipient set, and one
\* with a copy, data and a tag.
Emails_ ==
    { Nil,
      [Zero(SWUEmail) EXCEPT !.Recipient = [Zero(SWURecipient) EXCEPT !.Address = "a@b.c"]],
      [Zero(SWUEmail) EXCEPT
          !.ID = "t1",
          !.Recipient = [Address |-> "a@b.c", Name |-> "A"],
          !.CC = [elems |-> << [Address |-> "c@b.c", Name |-> ""] >>],
          !.EmailData = [entries |-> << [key |-> "k", val |-> "v"] >>],
          !.Tags = [elems |-> << "tag" >>]] }

\* The drip campaigns given to ActivateDripCampaign.
DripCampaigns ==
    { Nil,
      [Zero(SWUDripCampaign) EXCEPT
          !.Recipient = [Address |-> "a@b.c", Name |-> ""],
          !.Locale = "en"] }

\* The queries given to GetLogs (a nil pointer included).
LogQueries ==
    { Nil,
      Zero(SWULogQuery),
      [Zero(SWULogQuery) EXCEPT !.Count = 10, !.CreatedGT = 1000],
      [Zero(SWULogQuery) EXCEPT !.Offset = 5, !.CreatedLTE = 3],
      [Zero(SWULogQuery) EXCEPT !.Count = -1, !.CreatedGTE = 7, !.CreatedLT = 2000],
      [Count |-> 10, Offset |-> 5, CreatedGT |-> 1000, CreatedGTE |-> 7,
       CreatedLT |-> 2000, CreatedLTE |-> 3] }

\* The statuses of the responses.
Statuses == {200, 299, 300, 404}

\* The statuses of the redirects the transport follows.
RedirectStatuses == {302}

\* An error of the transport or of a read, with the text its Error() gives.
IOError(text) == [kind |-> "io", Message |-> text]

\* The errors of the transport.
TransportErrors == {IOError("dial tcp: connection refused")}

\* The errors of the transport's redirect policy.
RedirectErrors == {IOError("stopped after 10 redirects")}

\* The errors of a read of a body.
ReadErrors == {IOError("unexpected EOF")}

\* ------------------------------------------------------------------------
\* The state.

VARIABLES
    c,          \* the client: apiKey and URL
    pc,         \* where the invocation is: "idle", "makeRequest", "ReadAll", "Close", "Return"
    op,         \* the invocation: operation, arguments, method, endpoint, body, sink
    parse,      \* the value the sink points to
    sent,       \* the requests this invocation handed to the transport
    res,        \* what Do returned as response in this invocation (or Nil)
    doErr,      \* what Do returned as error in this invocation (or Nil)
    b,          \* the bytes ReadAll returned
    readErr,    \* the error ReadAll returned (or Nil)
    decoded,    \* whether buildRespJSON ran in this invocation
    err,        \* the error makeRequest returns (or Nil)
    ret,        \* what the operation returned: result and error (or Nil)
    bodies,     \* every response body the transport produced: open, events
    ncalls      \* the invocations finished

vars == << c, pc, op, parse, sent, res, doErr, b, readErr, decoded, err, ret,
           bodies, ncalls >>

\* New(apiKey).
New(apiKey) == [apiKey |-> apiKey, URL |-> swuEndpoint]

Idle == [name |-> "none"]

Init ==
    /\ c \in {New(k) : k \in ApiKeys}
    /\ pc = "idle"
    /\ op = Idle
    /\ parse = Nil
    /\ sent = <<>>
    /\ res = Nil
    /\ doErr = Nil
    /\ b = ""
    /\ readErr = Nil
    /\ decoded = FALSE
    /\ err = Nil
    /\ ret = Nil
    /\ bodies = <<>>
    /\ ncalls = 0

\* bytes.NewReader(payload).
NewReader(payload) == [bytes |-> payload]

RECURSIVE Concat(_)
Concat(parts) == IF parts = <<>> THEN "" ELSE Head(parts) \o Concat(Tail(parts))

\* A caller may invoke an operation when none is running.
CanCall == pc = "idle" /\ ncalls < MaxCalls

\* The operation `name`, invoked with args, calls makeRequest(method, endpoint,
\* body, result): the endpoint is given by its parts, sinkType is the type
\* the result points to (Nil for a nil result), value what it points to, and
\* returns how the
\* operation returns its result: "slice" (parse), "pointer" (&parse or parse)
\* or "none" (an error alone).
Call(name, args, method, endpoint, body, sinkType, value, returns) ==
    /\ op' = [name |-> name, args |-> args, method |-> method, endpoint |-> endpoint,
              body |-> body, sinkType |-> sinkType, returns |-> returns]
    /\ parse' = value
    /\ sent' = <<>>
    /\ res' = Nil
    /\ doErr' = Nil
    /\ b' = ""
    /\ readErr' = Nil
    /\ decoded' = FALSE
    /\ err' = Nil
    /\ ret' = Nil
    /\ pc' = "makeRequest"
    /\ UNCHANGED << c, bodies, ncalls >>

\* Emails: GET /templates into a []*SWUTemplate.
EmailsCall(name) ==
    Call(name, <<>>, "GET", << "/templates" >>, Nil, TSlice(TPtr(SWUTemplate)), Nil, "slice")

Emails ==
    /\ CanCall
    /\ EmailsCall("Emails")

\* Templates returns what Emails returns.
Templates ==
    /\ CanCall
    /\ EmailsCall("Templates")

GetTemplate ==
    /\ CanCall
    /\ \E id \in Ids :
        Call("GetTemplate", << id >>, "GET", << "/templates/", id >>, Nil,
             SWUTemplate, Zero(SWUTemplate), "pointer")

GetTemplateVersion ==
    /\ CanCall
    /\ \E id \in Ids, version \in Ids :
        Call("GetTemplateVersion", << id, version >>, "GET", << "/templates/", id, "/versions/", version >>, Nil,
             SWUVersion, Zero(SWUVersion), "pointer")

UpdateTemplateVersion ==
    /\ CanCall
    /\ \E id \in Ids, version \in Ids, template \in Versions :
        Call("UpdateTemplateVersion", << id, version, template >>, "PUT",
             << "/templates/", id, "/versions/", version >>,
             NewReader(Marshal(TPtr(SWUVersion), template)),
             SWUVersion, Zero(SWUVersion), "pointer")

CreateTemplate ==
    /\ CanCall
    /\ \E template \in Versions :
        Call("CreateTemplate", << template >>, "POST", << "/templates" >>,
             NewReader(Marshal(TPtr(SWUVersion), template)),
             SWUTemplate, Zero(SWUTemplate), "pointer")

CreateTemplateVersion ==
    /\ CanCall
    /\ \E id \in Ids, template \in Versions :
        Call("CreateTemplateVersion", << id, template >>, "POST", << "/templates/", id, "/versions" >>,
             NewReader(Marshal(TPtr(SWUVersion), template)),
             SWUTemplate, Zero(SWUTemplate), "pointer")

Send ==
    /\ CanCall
    /\ \E email \in Emails_ :
        Call("Send", << email >>, "POST", << "/send" >>,
             NewReader(Marshal(TPtr(SWUEmail), email)), Nil, Nil, "none")

ActivateDripCampaign ==
    /\ CanCall
    /\ \E id \in Ids, dripCampaign \in DripCampaigns :
        Call("ActivateDripCampaign", << id, dripCampaign >>, "POST", << "/drip_campaigns/", id, "/activate" >>,
             NewReader(Marshal(TPtr(SWUDripCampaign), dripCampaign)), Nil, Nil, "none")

GetLogs ==
    /\ CanCall
    /\ \E q \in LogQueries :
        Call("GetLogs", << q >>, "GET", << "/logs?" \o ValuesEncode(Values(q)) >>, Nil,
             TSlice(TPtr(SWULog)), Nil, "slice")

GetLog ==
    /\ CanCall
    /\ \E id \in Ids :
        Call("GetLog", << id >>, "GET", << "/logs/", id >>, Nil, SWULog, Zero(SWULog), "pointer")

GetLogEvents ==
    /\ CanCall
    /\ \E id \in Ids :
        Call("GetLogEvents", << id >>, "GET", << "/logs/", id, "/events" >>, Nil,
             SWULogEvent, Zero(SWULogEvent), "pointer")

\* ResendLog: the value marshalled as the body is the value the response is
\* decoded into.
ResendLog ==
    /\ CanCall
    /\ \E id \in LogIds :
        LET v == [Zero(SWULogResend) EXCEPT !.ID = id]
        IN  Call("ResendLog", << id >>, "POST", << "/resend" >>,
                 NewReader(Marshal(TPtr(SWULogResend), v)),
                 SWULogResend, v, "pointer")

\* ------------------------------------------------------------------------
\* makeRequest.

\* http.NewRequest(method, url, body): fails when the URL does not parse.
NewRequestError(endpoint) ==
    IF \E i \in DOMAIN endpoint : endpoint[i] \in InvalidEscapes
    THEN [kind |-> "url.Error",
          Message |-> "parse " \o Quote(c.URL \o Concat(endpoint)) \o ": invalid URL escape",
          wrapped |-> FALSE]
    ELSE Nil

\* A variant of SetBasicAuth that puts the first argument in the password.
SetBasicAuthAsPassword(r, username, password) ==
    [r EXCEPT !.Header = [@ EXCEPT !.Authorization =
        [scheme |-> "Basic", username |-> password, password |-> username]]]

\* r.SetBasicAuth(username, password).
SetBasicAuth(r, username, password) ==
    [r EXCEPT !.Header = [@ EXCEPT !.Authorization =
        [scheme |-> "Basic", username |-> username, password |-> password]]]

\* r.Header.Set("X-SWU-API-CLIENT", value).
SetClientHeader(r, value) ==
    [r EXCEPT !.Header = [@ EXCEPT !.XSWUAPICLIENT = value]]

\* The request makeRequest builds: http.NewRequest, SetBasicAuth, Header.Set.
BuildRequest(method, endpoint, body) ==
    SetClientHeader(
        SetBasicAuth(
            [Method |-> method, URL |-> c.URL \o Concat(endpoint), Body |-> body,
             Header |-> [Authorization |-> Nil, XSWUAPICLIENT |-> Nil]],
            c.apiKey, ""),
        apiHeaderClient)

\* A variant of Fail that returns without the deferred Close.
FailNoClose(e, deferred) ==
    /\ err' = e
    /\ pc' = "Return"

\* makeRequest returns e: with a response body in hand the deferred Close runs
\* first.
Fail(e, deferred) ==
    /\ err' = e
    /\ pc' = IF deferred THEN "Close" ELSE "Return"

\* http.NewRequest fails: makeRequest returns its error, wrapped.
NewRequestFails ==
    /\ pc = "makeRequest"
    /\ NewRequestError(op.endpoint) # Nil
    /\ Fail(Wrap(NewRequestError(op.endpoint)), FALSE)
    /\ UNCHANGED << c, op, parse, sent, res, doErr, b, readErr, decoded, ret, bodies, ncalls >>

\* A variant of Hand that gives the transport the request a second time.
HandTwice(r) == sent' = sent \o << r, r >>

\* c.Client.Do(r) is given the request.
Hand(r) == sent' = Append(sent, r)

\* c.Client.Do(r) fails and returns no response.
DoFails ==
    /\ pc = "makeRequest"
    /\ NewRequestError(op.endpoint) = Nil
    /\ Hand(BuildRequest(op.method, op.endpoint, op.body))
    /\ \E e \in TransportErrors :
          /\ doErr' = e
          /\ res' = Nil
          /\ Fail(Wrap(newSWUError(Nil, e.Message)), FALSE)
    /\ UNCHANGED << c, op, parse, b, readErr, decoded, ret, bodies, ncalls >>

\* c.Client.Do(r) fails on the redirect policy: it returns the last response,
\* its body closed, together with the error.
DoFailsWithResponse ==
    /\ pc = "makeRequest"
    /\ NewRequestError(op.endpoint) = Nil
    /\ Hand(BuildRequest(op.method, op.endpoint, op.body))
    /\ \E e \in RedirectErrors, status \in RedirectStatuses, body \in {""} :
          LET r == [StatusCode |-> status, Body |-> Len(bodies) + 1, text |-> body]
          IN  /\ doErr' = e
              /\ res' = r
              /\ bodies' = Append(bodies, [open |-> FALSE, events |-> <<>>])
              /\ Fail(Wrap(newSWUError(r, e.Message)), FALSE)
    /\ UNCHANGED << c, op, parse, b, readErr, decoded, ret, ncalls >>

\* c.Client.Do(r) returns a response, its body open.
DoReturns ==
    /\ pc = "makeRequest"
    /\ NewRequestError(op.endpoint) = Nil
    /\ Hand(BuildRequest(op.method, op.endpoint, op.body))
    /\ \E status \in Statuses, body \in Bodies :
          /\ res' = [StatusCode |-> status, Body |-> Len(bodies) + 1, text |-> body]
          /\ bodies' = Append(bodies, [open |-> TRUE, events |-> <<>>])
    /\ pc' = "ReadAll"
    /\ UNCHANGED << c, op, parse, doErr, b, readErr, decoded, err, ret, ncalls >>

\* An event on the body of the response.
BodyEvent(e, open) ==
    bodies' = [bodies EXCEPT ![res.Body] =
                  [open |-> open, events |-> Append(@.events, e)]]

\* A variant of AfterRead that fails on a status of 400 or more only.
AfterReadClientErrors(text) ==
    IF res.StatusCode >= FailureStatus + 100
    THEN /\ err' = Wrap(newSWUError(res, text))
         /\ UNCHANGED << parse, decoded >>
    ELSE IF op.sinkType # Nil
    THEN LET u == Unmarshal(text, op.sinkType, parse)
         IN  /\ parse' = u.val
             /\ decoded' = TRUE
             /\ err' = IF u.err # Nil THEN Wrap(u.err) ELSE Nil
    ELSE /\ err' = Nil
         /\ UNCHANGED << parse, decoded >>

\* A variant of AfterRead that returns a decoding error as an SWUError.
AfterReadDecodeAsSWUError(text) ==
    IF res.StatusCode >= FailureStatus
    THEN /\ err' = Wrap(newSWUError(res, text))
         /\ UNCHANGED << parse, decoded >>
    ELSE IF op.sinkType # Nil
    THEN LET u == Unmarshal(text, op.sinkType, parse)
         IN  /\ parse' = u.val
             /\ decoded' = TRUE
             /\ err' = IF u.err # Nil THEN Wrap(newSWUError(res, u.err.Message)) ELSE Nil
    ELSE /\ err' = Nil
         /\ UNCHANGED << parse, decoded >>

\* A variant of AfterRead that drops the error of the decoding.
AfterReadIgnoreDecodeError(text) ==
    IF res.StatusCode >= FailureStatus
    THEN /\ err' = Wrap(newSWUError(res, text))
         /\ UNCHANGED << parse, decoded >>
    ELSE IF op.sinkType # Nil
    THEN LET u == Unmarshal(text, op.sinkType, parse)
         IN  /\ parse' = u.val
             /\ decoded' = TRUE
             /\ err' = Nil
    ELSE /\ err' = Nil
         /\ UNCHANGED << parse, decoded >>

\* After the body is read: a status of 300 or more is an error with the body
\* as its message; otherwise the body is decoded into the result, when there
\* is one.
AfterRead(text) ==
    IF res.StatusCode >= FailureStatus
    THEN /\ err' = Wrap(newSWUError(res, text))
         /\ UNCHANGED << parse, decoded >>
    ELSE IF op.sinkType # Nil
    THEN LET u == Unmarshal(text, op.sinkType, parse)
         IN  /\ parse' = u.val
             /\ decoded' = TRUE
             \* buildRespJSON wraps the decoder's error
             /\ err' = IF u.err # Nil THEN Wrap(u.err) ELSE Nil
    ELSE /\ err' = Nil
         /\ UNCHANGED << parse, decoded >>

\* ioutil.ReadAll(res.Body) returns the body, and makeRequest goes on to the
\* status and the result.
ReadAll ==
    /\ pc = "ReadAll"
    /\ b' = res.text
    /\ BodyEvent("read", TRUE)
    /\ AfterRead(res.text)
    /\ pc' = "Close"
    /\ UNCHANGED << c, op, sent, res, doErr, readErr, ret, ncalls >>

\* ioutil.ReadAll(res.Body) fails.
ReadAllFails ==
    /\ pc = "ReadAll"
    /\ \E e \in ReadErrors :
          /\ readErr' = e
          /\ Fail(Wrap(newSWUError(res, e.Message)), TRUE)
    /\ BodyEvent("read", TRUE)
    /\ UNCHANGED << c, op, parse, sent, res, doErr, b, decoded, ret, ncalls >>

\* The deferred res.Body.Close(), as makeRequest returns.
Close ==
    /\ pc = "Close"
    /\ BodyEvent("close", FALSE)
    /\ pc' = "Return"
    /\ UNCHANGED << c, op, parse, sent, res, doErr, b, readErr, decoded, err, ret, ncalls >>

\* A variant of Returned that returns the result along with the error.
ReturnedWithResult(e, value) ==
    [result |-> IF op.returns = "none" THEN Nil ELSE value,
     err |-> IF e # Nil THEN Wrap(e) ELSE Nil]

\* What the operation returns for the error of makeRequest: the error wrapped
\* and no result, or the result and no error.
Returned(e, value) ==
    IF e # Nil
    THEN [result |-> Nil, err |-> Wrap(e)]
    ELSE [result |-> IF op.returns = "none" THEN Nil ELSE value, err |-> Nil]

\* The operation returns to its caller.
Return ==
    /\ pc = "Return"
    /\ ret' = Returned(err, parse)
    /\ pc' = "idle"
    /\ ncalls' = ncalls + 1
    /\ UNCHANGED << c, op, parse, sent, res, doErr, b, readErr, decoded, err, bodies >>

Next ==
    \/ Emails
    \/ Templates
    \/ GetTemplate
    \/ GetTemplateVersion
    \/ UpdateTemplateVersion
    \/ CreateTemplate
    \/ CreateTemplateVersion
    \/ Send
    \/ ActivateDripCampaign
    \/ GetLogs
    \/ GetLog
    \/ GetLogEvents
    \/ ResendLog
    \/ NewRequestFails
    \/ DoFails
    \/ DoFailsWithResponse
    \/ DoReturns
    \/ ReadAll
    \/ ReadAllFails
    \/ Close
    \/ Return

Spec == Init /\ [][Next]_vars

\* ------------------------------------------------------------------------
\* The properties.

\* An invocation has returned, and the state holds what it did.
Finished == pc = "idle" /\ ret # Nil

\* Do returned a response and no error, and the body was read in full.
BodyRead == doErr = Nil /\ res # Nil /\ readErr = Nil

\* e is an SWUError with this code and message.
IsSWUError(e, code, message) ==
    /\ e # Nil
    /\ e.kind = "SWUError"
    /\ e.Code = code
    /\ e.Message = message

\* e is an error of the JSON decoder, which carries no status code.
IsDecodeError(e) ==
    /\ e # Nil
    /\ e.kind \in {"json.SyntaxError", "json.UnmarshalTypeError"}
    /\ "Code" \notin DOMAIN e

\* C1: whatever the operation, when a response of status 300 or more is
\* delivered and its body read, the call fails with an error whose code is the
\* status and whose message is the body, and returns no result; when the status
\* is below 300 the call does not fail with a status-carrying error.
C1_StatusFailure ==
    (Finished /\ BodyRead) =>
        /\ res.StatusCode >= 300 =>
              (IsSWUError(ret.err, res.StatusCode, res.text) /\ ret.result = Nil)
        /\ res.StatusCode < 300 => (ret.err = Nil \/ IsDecodeError(ret.err))

\* A redirect status with an empty body has failed Send.
C1_Witness ==
    /\ Finished /\ BodyRead
    /\ op.name = "Send"
    /\ res.StatusCode = 300
    /\ res.text = ""
    /\ IsSWUError(ret.err, 300, "")

\* C2 as stated: whenever Do returns an error, the call fails with code 0 and
\* the text of that error, and no body is read or decoded.
C2_TransportFailureCodeZero ==
    (Finished /\ doErr # Nil) =>
        /\ IsSWUError(ret.err, 0, doErr.Message)
        /\ b = "" /\ readErr = Nil /\ ~decoded

\* C2 as amended: whenever Do returns an error, the call fails with the text
\* of that error, and the client neither reads nor decodes a body; the code is
\* 0 when Do returned no response with the error, and the status of the
\* response when Do returned one.
C2_TransportFailure ==
    (Finished /\ doErr # Nil) =>
        /\ IsSWUError(ret.err, IF res = Nil THEN 0 ELSE res.StatusCode, doErr.Message)
        /\ ret.result = Nil
        /\ b = "" /\ readErr = Nil /\ ~decoded
        /\ res # Nil => bodies[res.Body].events = <<>>

\* Do failed without a response, and the call failed with code 0.
C2_Witness ==
    /\ Finished
    /\ doErr # Nil
    /\ res = Nil
    /\ IsSWUError(ret.err, 0, doErr.Message)

C4_ErrorIffNoResult ==
    (Finished /\ op.returns # "none") => (ret.err # Nil <=> ret.result = Nil)

\* C4 as amended: an operation that returns a result returns no result with
\* an error; an operation that returns a pointer returns an error exactly when
\* it returns no result; an operation that returns a list returns a nil list
\* without an error only for a response body that is the JSON null.
C4_NoPartialSuccess ==
    (Finished /\ op.returns # "none") =>
        /\ ret.err # Nil => ret.result = Nil
        /\ op.returns = "pointer" => (ret.err # Nil <=> ret.result = Nil)
        /\ (op.returns = "slice" /\ ret.err = Nil /\ ret.result = Nil) => b = "null"

\* A response that filled the ID of the template before its decoding failed
\* has left GetTemplate without a result.
C4_Witness ==
    /\ Finished /\ BodyRead
    /\ op.name = "GetTemplate"
    /\ parse.ID = "t1"
    /\ ret.err # Nil
    /\ ret.result = Nil

\* C5 as stated: the body of every response the transport returned is read and
\* then closed once by the time the call returns.
C5_BodyReadAndClosed ==
    (Finished /\ res # Nil) =>
        /\ bodies[res.Body].events = << "read", "close" >>
        /\ ~bodies[res.Body].open

\* C5 as amended: the body of a response that Do returned without an error is
\* read and then closed once by the time the call returns, on every path; the
\* body of a response that Do returned with an error, which the transport has
\* closed, is neither read nor closed by the call; no body is open but that of
\* the running call.
C5_BodyClosedOnce ==
    /\ \A i \in DOMAIN bodies :
          bodies[i].open => (pc \in {"ReadAll", "Close"} /\ res # Nil /\ res.Body = i)
    /\ (Finished /\ res # Nil) =>
          bodies[res.Body].events =
              IF doErr = Nil THEN << "read", "close" >> ELSE <<>>

\* A second call whose read failed has closed its body, as the first did.
C5_Witness ==
    /\ Finished
    /\ readErr # Nil
    /\ Len(bodies) = 2
    /\ \A i \in DOMAIN bodies :
          ~bodies[i].open /\ bodies[i].events = << "read", "close" >>

\* C6: an invocation hands the transport at most one request: one when the
\* request could be built, none otherwise, whatever failed afterwards; and it
\* returns once.
C6_OneRequestNoRetry ==
    /\ Len(sent) <= 1
    /\ (pc \in {"ReadAll", "Close", "Return"} \/ Finished) =>
          Len(sent) = IF NewRequestError(op.endpoint) = Nil THEN 1 ELSE 0
    /\ ret # Nil => pc = "idle"

\* A call has returned the failure of the transport after one request.
C6_Witness ==
    /\ Finished
    /\ doErr # Nil
    /\ res = Nil
    /\ Len(sent) = 1
    /\ ret.err # Nil

RECURSIVE Fits(_, _)
\* The document j has the shape of the type T: null, or a value of the kind of
\* T whose parts that T names have the shape of their types.
Fits(T, j) ==
    \/ j.k = "null"
    \/ T.kind = "ptr" /\ Fits(T.elem, j)
    \/ T.kind = "string" /\ j.k = "string"
    \/ T.kind = "int" /\ j.k = "number"
    \/ T.kind = "bool" /\ j.k = "bool"
    \/ /\ T.kind = "slice"
       /\ j.k = "array"
       /\ \A i \in DOMAIN j.elems : Fits(T.elem, j.elems[i])
    \/ /\ T.kind = "struct"
       /\ j.k = "object"
       /\ \A i \in DOMAIN j.members :
             \A n \in DOMAIN T.fields :
                 T.fields[n].tag = j.members[i].key =>
                     Fits(T.fields[n].type, j.members[i].val)

\* C7: for a response of status below 300 whose body was read, a call without
\* a result succeeds and decodes nothing, whatever the body; a call with a
\* result decodes the body and succeeds exactly when the body is a JSON
\* document of the shape of the result.
C7_SinkDecides ==
    (Finished /\ BodyRead /\ res.StatusCode < 300) =>
        /\ op.sinkType = Nil => (ret.err = Nil /\ ~decoded)
        /\ op.sinkType # Nil =>
              /\ decoded
              /\ ret.err = Nil <=>
                    \E d \in ResponseDocs : Render(d) = b /\ Fits(op.sinkType, d)

\* Send of an email with only its recipient has succeeded on an empty body.
C7_Witness ==
    /\ Finished /\ BodyRead
    /\ op.name = "Send"
    /\ op.args[1] # Nil
    /\ op.args[1].ID = "" /\ op.args[1].CC = Nil
    /\ res.StatusCode = 200
    /\ b = ""
    /\ ret.err = Nil

\* The path of the operations whose path is fixed.
FixedPath(name) ==
    CASE name \in {"Emails", "Templates", "CreateTemplate"} -> "/templates"
      [] name = "Send" -> "/send"
      [] name = "ResendLog" -> "/resend"
      [] OTHER -> Concat(op.endpoint)

\* C8: every request handed to the transport has the base URL followed by the
\* path of the operation as its URL, Basic authentication with the API key as
\* user name and an empty password, and the client header; and no step changes
\* the client.
C8_RequestIdentity ==
    /\ [](\A i \in DOMAIN sent :
            /\ sent[i].URL = swuEndpoint \o FixedPath(op.name)
            /\ sent[i].Method = op.method
            /\ sent[i].Header.Authorization =
                  [scheme |-> "Basic", username |-> c.apiKey, password |-> ""]
            /\ sent[i].Header.XSWUAPICLIENT = apiHeaderClient)
    /\ [][c' = c]_vars

\* ActivateDripCampaign has sent its request with the key of the client.
C8_Witness ==
    /\ Finished
    /\ op.name = "ActivateDripCampaign"
    /\ c.apiKey = "key1"
    /\ Len(sent) = 1
    /\ sent[1].URL = "https://api.sendwithus.com/api/v1/drip_campaigns/log123/activate"
    /\ sent[1].Header.Authorization.username = "key1"
    /\ sent[1].Header.Authorization.password = ""

\* C9 as stated: ResendLog(id) posts to /resend a body that holds the
\* identifier alone, {"log_id":"<id>"}.
C9_ResendBodyOnlyId ==
    (op.name = "ResendLog" /\ sent # <<>>) =>
        /\ sent[1].Method = "POST"
        /\ sent[1].URL = swuEndpoint \o "/resend"
        /\ sent[1].Body = NewReader("{\"log_id\":" \o Quote(op.args[1]) \o "}")

\* The pair of a filter, when its value is not zero.
Pair(key, n) == IF n = 0 THEN <<>> ELSE << key \o "=" \o ToString(n) >>

RECURSIVE JoinAmp(_)
JoinAmp(s) ==
    IF s = <<>> THEN ""
    ELSE Head(s) \o (IF Tail(s) = <<>> THEN "" ELSE "&" \o JoinAmp(Tail(s)))

\* The query string of a query: a pair for each filter that is not zero.
ExpectedQuery(q) ==
    IF q = Nil THEN ""
    ELSE JoinAmp(Pair("count", q.Count) \o Pair("created_gt", q.CreatedGT)
                 \o Pair("created_gte", q.CreatedGTE) \o Pair("created_lt", q.CreatedLT)
                 \o Pair("created_lte", q.CreatedLTE) \o Pair("offset", q.Offset))

\* C10: GetLogs issues a GET without a body to /logs? followed by one
\* key=value pair for each filter of the query that is not zero, and none for
\* a filter that is zero.
C10_LogsQuery ==
    (op.name = "GetLogs" /\ sent # <<>>) =>
        /\ sent[1].Method = "GET"
        /\ sent[1].Body = Nil
        /\ sent[1].URL = swuEndpoint \o "/logs?" \o ExpectedQuery(op.args[1])

\* The query {count: 10, offset: 0, createdGT: 1000} has been sent as
\* count=10&created_gt=1000.
C10_Witness ==
    /\ op.name = "GetLogs"
    /\ sent # <<>>
    /\ op.args[1] # Nil
    /\ op.args[1].Count = 10 /\ op.args[1].Offset = 0 /\ op.args[1].CreatedGT = 1000
    /\ sent[1].URL = "https://api.sendwithus.com/api/v1/logs?count=10&created_gt=1000"
====
